---- MODULE Spec2Model ----
(***************************************************************************)
(* Watch lifecycle of the Elasticsearch provider:                          *)
(*   src/es/resource_elasticsearch_xpack_watch.go  (Create/Read/Update/    *)
(*   Delete of a watch over an elastic6 or elastic7 client), and           *)
(*   src/es/data_source_elasticsearch_host.go      (first endpoint URL).   *)
(*                                                                         *)
(* A handler is a sequence of blocking backend calls.  Each action below   *)
(* is one backend call of a handler together with all the local code that  *)
(* runs up to the next backend call (or the return), so that handlers of   *)
(* different callers interleave exactly where the real ones can: at the    *)
(* backend.  Spec runs one framework worker, handler after handler.        *)
(***************************************************************************)
EXTENDS Integers, Sequences, FiniteSets, TLC

\* ----------------------------------------------------------------- bounds
NumCallers == 2     \* resource instances (callers) sharing the backend
NumIds == 1         \* distinct watch ids
NumKeys == 2        \* distinct top-level keys a watch body may hold
NumUrls == 2        \* distinct endpoint URLs a client may be configured with
MaxUrls == 2        \* longest endpoint list of a client

Callers == 1..NumCallers
Ids == 1..NumIds
NoId == 0           \* the empty string "" of d.Id() / watch_id
Keys == 1..NumKeys
Urls == 1..NumUrls

\* --------------------------------------------------------- JSON documents
\* A body text is the sequence of its top-level keys in the order written;
\* the document it denotes is the set of those keys.  The empty sequence is
\* the empty Go string (an unset field), which is no JSON text.
EmptyString == << >>

Texts ==
  { t \in UNION { [1..n -> Keys] : n \in 1..NumKeys } :
      \A i, j \in DOMAIN t : t[i] = t[j] => i = j }

Docs == (SUBSET Keys) \ { {} }

\* what the backend stores for a body text
Parse(t) == { t[i] : i \in DOMAIN t }

Least(S) == CHOOSE m \in S : \A k \in S : m <= k

RECURSIVE Marshal(_)
\* json.Marshal of the stored watch: keys come out in sorted order
Marshal(doc) ==
  IF doc = {} THEN << >>
  ELSE << Least(doc) >> \o Marshal(doc \ { Least(doc) })

\* ----------------------------------------------------------------- errors
\* An error value: the Go type that carries it (lib), the HTTP status of an
\* elastic *Error, and the message of a plain error.
Err(lib, status, msg) == [lib |-> lib, status |-> status, msg |-> msg]

Nil == Err("nil", 0, "")
Unsupported == Err("errors", 0, "watch resource not implemented prior to Elastic v6")
AlreadyExists == Err("errors", 0, "watch already exists with ID")
ClientErr == Err("errors", 0, "getClient")

StatusNotFound == 404
StatusServerError == 500

Variants == { "v5", "v6", "v7" }

LibOf(v) ==
  CASE v = "v7" -> "elastic7"
    [] v = "v6" -> "elastic6"
    [] OTHER    -> "elastic5"

\* the error a client of variant v returns for an HTTP 404
NotFoundOf(v) == Err(LibOf(v), StatusNotFound, "")

elastic6IsNotFound(err) == err.lib = "elastic6" /\ err.status = StatusNotFound
elastic7IsNotFound(err) == err.lib = "elastic7" /\ err.status = StatusNotFound

\* ------------------------------------------------------------------ state
VARIABLES
  variant,   \* which client getClient hands out: fixed for a provider
  backend,   \* watch id -> the watch the cluster stores
  d,         \* caller -> schema.ResourceData: Id() and the three fields
  decl,      \* caller -> the fields declared to its last Create or Update
  pc,        \* caller -> position inside its handler
  op,        \* caller -> handler it runs, or ran last
  calls,     \* caller -> backend calls that handler has issued
  res,       \* caller -> error that handler returned
  prev,      \* caller -> the handler before: op, id, success, last call
  cv,        \* classification of one error value (SpecClassify)
  urls,      \* the client's private field urls: its ordered endpoint list
  host,      \* the elasticsearch_host data source: its id and what Read returned
  snap       \* backend and ResourceData as a repeated Update found them

vars == << variant, backend, d, decl, pc, op, calls, res, prev, cv, urls, host, snap >>

\* what the handlers of the watch resource never touch
aux == << urls, host, snap >>

NoWatch == [present |-> FALSE, doc |-> {}, active |-> FALSE]
Watch(doc, active) == [present |-> TRUE, doc |-> doc, active |-> active]
Watches == { NoWatch } \cup { Watch(doc, a) : doc \in Docs, a \in BOOLEAN }

NewResourceData == [id |-> NoId, watch_id |-> NoId, body |-> EmptyString, active |-> FALSE]
NoDecl == [watch_id |-> NoId, body |-> EmptyString, active |-> FALSE]
NoPrev == [op |-> "none", id |-> NoId, ok |-> FALSE, last |-> "none"]
NoCv == [err |-> Nil, site |-> "none", verdict |-> "none"]

\* the endpoint lists a client can hold, the empty one included
UrlLists == UNION { [1..n -> Urls] : n \in 0..MaxUrls }

\* the data source before its Read has run: no id
NoHost == [pc |-> "idle", id |-> NoId, res |-> Nil]
NoSnap == [taken |-> FALSE, backend |-> [i \in Ids |-> NoWatch], d |-> NewResourceData]

Call(name, id, err) == [call |-> name, id |-> id, err |-> err]

\* What the environment does to one step of a handler: getClient fails
\* ("client"), the cluster answers the round trip with a server error
\* ("server"), or it goes through ("ok").  "client2" lets the round trip
\* through and fails Read's second getClient.
Faults == { "ok", "server", "client" }
ReadFaults == Faults \cup { "client2" }

\* the error the variant's client returns for an HTTP 500
ServerErr == Err(LibOf(variant), StatusServerError, "")

\* a resource the state file already tracks when the provider starts
Tracked(id, doc, active) ==
  [id |-> id, watch_id |-> id, body |-> Marshal(doc), active |-> active]

\* what the framework worker of Spec starts from: nothing, or a tracked
\* resource written by an earlier run
StateFile ==
  { NewResourceData } \cup
  { Tracked(id, doc, a) : id \in Ids, doc \in Docs, a \in BOOLEAN }

\* the single framework worker of Spec
Worker == { 1 }

Init ==
  /\ variant \in Variants
  /\ backend \in [Ids -> Watches]
  /\ d \in { [c \in Callers |-> IF c \in Worker THEN rd ELSE NewResourceData] :
               rd \in StateFile }
  /\ decl = [c \in Callers |-> NoDecl]
  /\ pc = [c \in Callers |-> "idle"]
  /\ op = [c \in Callers |-> "none"]
  /\ calls = [c \in Callers |-> << >>]
  /\ res = [c \in Callers |-> Nil]
  /\ prev = [c \in Callers |-> NoPrev]
  /\ cv = NoCv
  /\ urls = << >>
  /\ host = NoHost
  /\ snap = NoSnap

\* ------------------------------------------------- the backend, per call
\* One round trip of the client of the provider's variant.  f is what the
\* environment does to the round trip; a reply is the error the client
\* returns, the watch it found and the backend after the call.
Reply(err, found, after) == [err |-> err, found |-> found, after |-> after]

XPackWatchGet(watchID, f) ==
  IF f = "server" THEN Reply(ServerErr, NoWatch, backend)
  ELSE IF ~backend[watchID].present THEN Reply(NotFoundOf(variant), NoWatch, backend)
  ELSE Reply(Nil, backend[watchID], backend)

\* XPackWatchPut that merges the new document into the stored one
XPackWatchPut_Merge(watchID, watchJSON, f, st) ==
  IF f = "server" THEN Reply(ServerErr, NoWatch, backend)
  ELSE Reply(Nil, NoWatch,
             [backend EXCEPT ![watchID] =
                Watch(backend[watchID].doc \cup Parse(watchJSON), st)])

\* the put replaces the stored document; the status the cluster gives the
\* watch after a put is the cluster's choice (st)
XPackWatchPut(watchID, watchJSON, f, st) ==
  IF f = "server" THEN Reply(ServerErr, NoWatch, backend)
  ELSE Reply(Nil, NoWatch, [backend EXCEPT ![watchID] = Watch(Parse(watchJSON), st)])

XPackWatchDelete(watchID, f) ==
  IF f = "server" THEN Reply(ServerErr, NoWatch, backend)
  ELSE IF ~backend[watchID].present THEN Reply(NotFoundOf(variant), NoWatch, backend)
  ELSE Reply(Nil, NoWatch, [backend EXCEPT ![watchID] = NoWatch])

\* XPackWatchActivate (isActive) and XPackWatchDeactivate (~isActive)
XPackWatchSetActive(watchID, isActive, f) ==
  IF f = "server" THEN Reply(ServerErr, NoWatch, backend)
  ELSE IF ~backend[watchID].present THEN Reply(NotFoundOf(variant), NoWatch, backend)
  ELSE Reply(Nil, NoWatch, [backend EXCEPT ![watchID].active = isActive])

Supported == variant \in { "v6", "v7" }

\* ------------------------------------------------------- pieces of handlers
\* resourceElasticsearchGetWatch: getClient, then the type switch.
\* called tells whether a request went to the backend.
resourceElasticsearchGetWatch(watchID, f) ==
  IF f = "client" THEN [err |-> ClientErr, found |-> NoWatch, called |-> FALSE]
  ELSE IF ~Supported THEN [err |-> Unsupported, found |-> NoWatch, called |-> FALSE]
  ELSE LET r == XPackWatchGet(watchID, f)
       IN  [err |-> r.err, found |-> r.found, called |-> TRUE]

\* Guarded with the default branch of the type switch left out
Guarded_NoDefault(f, reply) ==
  IF f = "client" THEN [err |-> ClientErr, called |-> FALSE, after |-> backend]
  ELSE [err |-> reply.err, called |-> TRUE, after |-> reply.after]

\* getClient and the type switch in front of a put or a delete
Guarded(f, reply) ==
  IF f = "client" THEN [err |-> ClientErr, called |-> FALSE, after |-> backend]
  ELSE IF ~Supported THEN [err |-> Unsupported, called |-> FALSE, after |-> backend]
  ELSE [err |-> reply.err, called |-> TRUE, after |-> reply.after]

\* CreateProbeVerdict without the err == nil branch
CreateProbeVerdict_NoExistenceCheck(err) ==
  IF err # Nil /\ ~elastic6IsNotFound(err) /\ ~elastic7IsNotFound(err) THEN "abort"
  ELSE "proceed"

\* CreateProbeVerdict that asks elastic6.IsNotFound alone
CreateProbeVerdict_OnlyElastic6(err) ==
  IF err = Nil THEN "exists"
  ELSE IF ~elastic6IsNotFound(err) THEN "abort"
  ELSE "proceed"

\* CreateProbeVerdict that takes every error for NotFound
CreateProbeVerdict_AnyErrorIsAbsent(err) ==
  IF err = Nil THEN "exists" ELSE "proceed"

\* Create's branch on the probe's error
CreateProbeVerdict(err) ==
  IF err = Nil THEN "exists"
  ELSE IF ~elastic6IsNotFound(err) /\ ~elastic7IsNotFound(err) THEN "abort"
  ELSE "proceed"

\* ReadVerdict without the NotFound branch
ReadVerdict_NotFoundIsError(err) ==
  IF err # Nil THEN "fail" ELSE "ok"

\* ReadVerdict that takes every error for NotFound
ReadVerdict_AnyErrorIsAbsent(err) ==
  IF err # Nil THEN "absent" ELSE "ok"

\* Read's branch on the error of its getWatch
ReadVerdict(err) ==
  IF elastic6IsNotFound(err) \/ elastic7IsNotFound(err) THEN "absent"
  ELSE IF err # Nil THEN "fail"
  ELSE "ok"

\* PutNext that sends a failed put again
PutNext_RetryOnError(err) == IF err = Nil THEN "activate" ELSE "put"

\* PutNext that leaves out activateWatcher
PutNext_SkipActivation(err) == IF err = Nil THEN "read" ELSE "done"

\* PutNext that drops the error of the put
PutNext_IgnoreError(err) == "activate"

\* PutWatch after the put: an error returns, success goes on to activateWatcher
PutNext(err) == IF err = Nil THEN "activate" ELSE "done"

\* ActivateNext that drops the error of activateWatcher
ActivateNext_IgnoreError(err) == "read"

\* PutWatch after activateWatcher: an error returns; success returns the
\* watch id, and the caller (Create after SetId, Update) goes on to Read
ActivateNext(err) == IF err = Nil THEN "read" ELSE "done"

\* ActivationCall that ignores the flag
ActivationCall_AlwaysActivate(isActive) == "activate"

\* activateWatcher's choice of call
ActivationCall(isActive) == IF isActive THEN "activate" ELSE "deactivate"

\* ReadProjection that does not set body
ReadProjection_KeepBody(rd, found) ==
  [rd EXCEPT !.watch_id = rd.id, !.active = found.active]

\* ReadProjection that does not set active
ReadProjection_KeepActive(rd, found) ==
  [rd EXCEPT !.body = Marshal(found.doc), !.watch_id = rd.id]

\* ReadProjection that sets watch_id to the empty string
ReadProjection_DropWatchId(rd, found) ==
  [rd EXCEPT !.body = Marshal(found.doc), !.watch_id = NoId, !.active = found.active]

\* the three fields Read sets from the response
ReadProjection(rd, found) ==
  [rd EXCEPT !.body = Marshal(found.doc), !.watch_id = rd.id, !.active = found.active]

\* DeleteReturn with a NotFound branch like the one of Read
DeleteReturn_TolerateNotFound(err) ==
  IF elastic6IsNotFound(err) \/ elastic7IsNotFound(err) THEN Nil ELSE err

\* what Delete returns: the error of its one call, unclassified
DeleteReturn(err) == err

\* the framework calls a handler when the one before has returned
Ready(c) == pc[c] \in { "idle", "done" }

\* entering a handler: the one before becomes the previous one
Enter(c) ==
  prev' = [prev EXCEPT ![c] =
             IF pc[c] = "done"
             THEN [op |-> op[c], id |-> d[c].watch_id, ok |-> res[c] = Nil,
                   last |-> IF calls[c] = << >> THEN "none"
                            ELSE calls[c][Len(calls[c])].call]
             ELSE @]

\* ---------------------------------------------------------------- actions
\* Create, up to the branch on the existence probe.  The framework hands the
\* handler a new ResourceData holding the declared fields and no id.
resourceElasticsearchWatchCreate(c, watchID, body, active, f) ==
  /\ Ready(c)
  /\ LET r == resourceElasticsearchGetWatch(watchID, f)
         v == CreateProbeVerdict(r.err)
     IN  /\ calls' = [calls EXCEPT ![c] =
                        IF r.called THEN << Call("get", watchID, r.err) >> ELSE << >>]
         /\ pc' = [pc EXCEPT ![c] = IF v = "proceed" THEN "put" ELSE "done"]
         /\ res' = [res EXCEPT ![c] =
                      CASE v = "exists" -> AlreadyExists
                        [] v = "abort"  -> r.err
                        [] OTHER        -> Nil]
  /\ d' = [d EXCEPT ![c] =
             [id |-> NoId, watch_id |-> watchID, body |-> body, active |-> active]]
  /\ decl' = [decl EXCEPT ![c] =
                [watch_id |-> watchID, body |-> body, active |-> active]]
  /\ op' = [op EXCEPT ![c] = "create"]
  /\ Enter(c)
  /\ UNCHANGED << variant, backend, cv >>

\* resourceElasticsearchPutWatch up to the call of activateWatcher
PutStep(c, rd, log, f, st) ==
  /\ f # "ok" => st
  /\ LET r == Guarded(f, XPackWatchPut(rd.watch_id, rd.body, f, st))
     IN  /\ backend' = r.after
         /\ calls' = [calls EXCEPT ![c] =
                        IF r.called THEN Append(log, Call("put", rd.watch_id, r.err))
                        ELSE log]
         /\ pc' = [pc EXCEPT ![c] = PutNext(r.err)]
         /\ res' = [res EXCEPT ![c] = r.err]

\* Create, after the probe said NotFound
resourceElasticsearchPutWatch(c, f, st) ==
  /\ pc[c] = "put"
  /\ PutStep(c, d[c], calls[c], f, st)
  /\ UNCHANGED << variant, d, decl, op, prev, cv >>

\* Update with an existence probe in front of the put: an absent watch is
\* an error, as a present one is for Create
resourceElasticsearchWatchUpdate_WithProbe(c, body, active, f, st) ==
  /\ Ready(c)
  /\ d[c].id # NoId
  /\ LET rd == [d[c] EXCEPT !.body = body, !.active = active]
         g == resourceElasticsearchGetWatch(rd.watch_id, f)
         probe == IF g.called THEN << Call("get", rd.watch_id, g.err) >> ELSE << >>
     IN  /\ d' = [d EXCEPT ![c] = rd]
         /\ decl' = [decl EXCEPT ![c] =
                       [watch_id |-> rd.watch_id, body |-> body, active |-> active]]
         /\ IF g.err = Nil THEN PutStep(c, rd, probe, f, st)
            ELSE /\ backend' = backend
                 /\ calls' = [calls EXCEPT ![c] = probe]
                 /\ pc' = [pc EXCEPT ![c] = "done"]
                 /\ res' = [res EXCEPT ![c] = g.err]
  /\ op' = [op EXCEPT ![c] = "update"]
  /\ Enter(c)
  /\ UNCHANGED << variant, cv >>

\* Update: no probe, the put comes first.  The declared body and active
\* replace the stored ones; watch_id cannot change on an update (ForceNew).
resourceElasticsearchWatchUpdate(c, body, active, f, st) ==
  /\ Ready(c)
  /\ d[c].id # NoId
  /\ LET rd == [d[c] EXCEPT !.body = body, !.active = active]
     IN  /\ d' = [d EXCEPT ![c] = rd]
         /\ decl' = [decl EXCEPT ![c] =
                       [watch_id |-> rd.watch_id, body |-> body, active |-> active]]
         /\ PutStep(c, rd, << >>, f, st)
  /\ op' = [op EXCEPT ![c] = "update"]
  /\ Enter(c)
  /\ UNCHANGED << variant, cv >>

\* activateWatcher, the rest of PutWatch and, in Create, SetId
activateWatcher(c, f) ==
  /\ pc[c] = "activate"
  /\ LET name == ActivationCall(d[c].active)
         r == XPackWatchSetActive(d[c].watch_id, name = "activate", f)
     IN  /\ backend' = r.after
         /\ calls' = [calls EXCEPT ![c] = Append(@, Call(name, d[c].watch_id, r.err))]
         /\ pc' = [pc EXCEPT ![c] = ActivateNext(r.err)]
         /\ res' = [res EXCEPT ![c] = r.err]
         /\ d' = IF ActivateNext(r.err) = "read" /\ op[c] = "create"
                 THEN [d EXCEPT ![c].id = d[c].watch_id]
                 ELSE d
  /\ UNCHANGED << variant, decl, op, prev, cv >>

\* resourceElasticsearchWatchRead on the ResourceData rd
ReadStep(c, rd, log, f) ==
  LET r == resourceElasticsearchGetWatch(rd.id, f)
      v == ReadVerdict(r.err)
  IN  /\ calls' = [calls EXCEPT ![c] =
                     IF r.called THEN Append(log, Call("get", rd.id, r.err)) ELSE log]
      /\ d' = [d EXCEPT ![c] =
                 CASE v = "absent"           -> [rd EXCEPT !.id = NoId]
                   [] v = "ok" /\ f # "client2" -> ReadProjection(rd, r.found)
                   [] OTHER                  -> rd]
      /\ res' = [res EXCEPT ![c] =
                   CASE v = "fail"              -> r.err
                     [] v = "ok" /\ f = "client2" -> ClientErr
                     [] OTHER                   -> Nil]
      /\ pc' = [pc EXCEPT ![c] = "done"]

\* the Read that ends Create and Update
TrailingRead(c, f) ==
  /\ pc[c] = "read"
  /\ ReadStep(c, d[c], calls[c], f)
  /\ UNCHANGED << variant, backend, decl, op, prev, cv >>

\* Read that pushes the activation it holds back to a watch it found
resourceElasticsearchWatchRead_Reasserts(c, f) ==
  /\ Ready(c)
  /\ d[c].id # NoId
  /\ ReadStep(c, d[c], << >>, f)
  /\ backend' = IF d'[c].id # NoId /\ res'[c] = Nil
                THEN XPackWatchSetActive(d[c].id, d[c].active, f).after
                ELSE backend
  /\ op' = [op EXCEPT ![c] = "read"]
  /\ Enter(c)
  /\ UNCHANGED << variant, decl, cv >>

\* Read called on its own (refresh)
resourceElasticsearchWatchRead(c, f) ==
  /\ Ready(c)
  /\ d[c].id # NoId
  /\ ReadStep(c, d[c], << >>, f)
  /\ op' = [op EXCEPT ![c] = "read"]
  /\ Enter(c)
  /\ UNCHANGED << variant, backend, decl, cv >>

resourceElasticsearchWatchDelete(c, f) ==
  /\ Ready(c)
  /\ d[c].id # NoId
  /\ LET r == Guarded(f, XPackWatchDelete(d[c].id, f))
     IN  /\ backend' = r.after
         /\ calls' = [calls EXCEPT ![c] =
                        IF r.called THEN << Call("delete", d[c].id, r.err) >> ELSE << >>]
         /\ res' = [res EXCEPT ![c] = DeleteReturn(r.err)]
  /\ pc' = [pc EXCEPT ![c] = "done"]
  /\ op' = [op EXCEPT ![c] = "delete"]
  /\ Enter(c)
  /\ UNCHANGED << variant, d, decl, cv >>

\* FirstUrl that takes the last entry of the list
FirstUrl_Last(list, id) ==
  IF Len(list) > 0 THEN list[Len(list)] ELSE id

\* urls.Index(0) under urls.Len() > 0; id is the id the ResourceData has
FirstUrl(list, id) ==
  IF Len(list) > 0 THEN list[1] ELSE id

\* the type switch of dataSourceElasticsearchHostRead: one branch per
\* client type, the default branch taking the client for an elastic5 one
HostSwitch(v, list, id) ==
  CASE v = "v7" -> FirstUrl(list, id)
    [] v = "v6" -> FirstUrl(list, id)
    [] OTHER    -> FirstUrl(list, id)

\* Read of the elasticsearch_host data source, on a new ResourceData (no
\* id): getClient, then the id from the client's urls.  No request is sent.
dataSourceElasticsearchHostRead(f) ==
  /\ host' = IF f = "client"
             THEN [pc |-> "done", id |-> NoHost.id, res |-> ClientErr]
             ELSE [pc |-> "done", id |-> HostSwitch(variant, urls, NoHost.id), res |-> Nil]
  /\ UNCHANGED << variant, backend, d, decl, pc, op, calls, res, prev, cv, urls, snap >>

\* ---------------------------------------------------------- specification
Create == /\ \E c \in Worker, watchID \in Ids, body \in Texts, active \in BOOLEAN,
                f \in Faults :
               resourceElasticsearchWatchCreate(c, watchID, body, active, f)
          /\ UNCHANGED aux
CreatePut == /\ \E c \in Worker, f \in Faults, st \in BOOLEAN :
                  resourceElasticsearchPutWatch(c, f, st)
             /\ UNCHANGED aux
Update == /\ \E c \in Worker, body \in Texts, active \in BOOLEAN,
                f \in Faults, st \in BOOLEAN :
               resourceElasticsearchWatchUpdate(c, body, active, f, st)
          /\ UNCHANGED aux
Activate == /\ \E c \in Worker, f \in Faults : activateWatcher(c, f)
            /\ UNCHANGED aux
ReadBack == /\ \E c \in Worker, f \in ReadFaults : TrailingRead(c, f)
            /\ UNCHANGED aux
Read == /\ \E c \in Worker, f \in ReadFaults : resourceElasticsearchWatchRead(c, f)
        /\ UNCHANGED aux
Delete == /\ \E c \in Worker, f \in Faults : resourceElasticsearchWatchDelete(c, f)
          /\ UNCHANGED aux

Next ==
  \/ Create
  \/ CreatePut
  \/ Update
  \/ Activate
  \/ ReadBack
  \/ Read
  \/ Delete

Spec == Init /\ [][Next]_vars

\* ------------------------------------------- classification of an error
\* The two places that classify an error of getWatch, applied to every
\* error value of the three client libraries and to the plain errors.
Statuses == { 400, 404, 409, 500, 503 }

ErrorValues ==
  { Nil, Unsupported, ClientErr } \cup
  { Err(lib, st, "") : lib \in { "elastic5", "elastic6", "elastic7" }, st \in Statuses }

InitClassify ==
  /\ variant \in Variants
  /\ backend = [i \in Ids |-> NoWatch]
  /\ d = [c \in Callers |-> NewResourceData]
  /\ decl = [c \in Callers |-> NoDecl]
  /\ pc = [c \in Callers |-> "idle"]
  /\ op = [c \in Callers |-> "none"]
  /\ calls = [c \in Callers |-> << >>]
  /\ res = [c \in Callers |-> Nil]
  /\ prev = [c \in Callers |-> NoPrev]
  /\ cv \in [err : ErrorValues, site : { "create", "read" }, verdict : { "pending" }]
  /\ urls = << >>
  /\ host = NoHost
  /\ snap = NoSnap

Classify ==
  /\ cv.verdict = "pending"
  /\ cv' = [cv EXCEPT !.verdict =
               IF cv.site = "create" THEN CreateProbeVerdict(cv.err)
               ELSE ReadVerdict(cv.err)]
  /\ UNCHANGED << variant, backend, d, decl, pc, op, calls, res, prev, aux >>

NextClassify == Classify

SpecClassify == InitClassify /\ [][NextClassify]_vars

\* ------------------------------------------------- the two read-only paths
\* Read of a tracked watch and Read of the host data source, over every
\* backend, every tracked resource and every endpoint list.
InitHost ==
  /\ variant \in Variants
  /\ backend \in [Ids -> Watches]
  /\ d \in { [c \in Callers |-> IF c \in Worker THEN rd ELSE NewResourceData] :
               rd \in StateFile }
  /\ decl = [c \in Callers |-> NoDecl]
  /\ pc = [c \in Callers |-> "idle"]
  /\ op = [c \in Callers |-> "none"]
  /\ calls = [c \in Callers |-> << >>]
  /\ res = [c \in Callers |-> Nil]
  /\ prev = [c \in Callers |-> NoPrev]
  /\ cv = NoCv
  /\ urls \in UrlLists
  /\ host = NoHost
  /\ snap = NoSnap

HostRead == \E f \in { "ok", "client" } : dataSourceElasticsearchHostRead(f)

NextHost ==
  \/ Read
  \/ HostRead

SpecHost == InitHost /\ [][NextHost]_vars

\* ------------------------------------------------------- a repeated Update
\* The worker updates a tracked watch, and may apply an Update that went
\* through once more with the same declared fields; snap keeps the backend
\* and the ResourceData the first application left.
TwiceUpdate ==
  /\ \E c \in Worker, body \in Texts, active \in BOOLEAN, f \in Faults, st \in BOOLEAN :
       resourceElasticsearchWatchUpdate(c, body, active, f, st)
  /\ snap' = NoSnap
  /\ UNCHANGED << urls, host >>

TwiceUpdateAgain ==
  /\ \E c \in Worker, f \in Faults, st \in BOOLEAN :
       /\ op[c] = "update" /\ pc[c] = "done" /\ res[c] = Nil
       /\ resourceElasticsearchWatchUpdate(c, decl[c].body, decl[c].active, f, st)
       /\ snap' = [taken |-> TRUE, backend |-> backend, d |-> d[c]]
  /\ UNCHANGED << urls, host >>

NextTwice ==
  \/ TwiceUpdate
  \/ TwiceUpdateAgain
  \/ Activate
  \/ ReadBack

SpecTwice == Init /\ [][NextTwice]_vars

\* ------------------------------------------------------ concurrent callers
\* Several framework workers (two applies, or two resources declaring the
\* same watch_id) share the cluster and take no lock: their handlers
\* interleave at the backend calls.  Each caller runs one handler; the
\* worker's resource is new, the resources of the others may be tracked.
InitRace ==
  /\ variant \in Variants
  /\ backend \in [Ids -> Watches]
  /\ d \in { [c \in Callers |-> IF c \in Worker THEN NewResourceData ELSE rd[c]] :
               rd \in [Callers -> StateFile] }
  /\ decl = [c \in Callers |-> NoDecl]
  /\ pc = [c \in Callers |-> "idle"]
  /\ op = [c \in Callers |-> "none"]
  /\ calls = [c \in Callers |-> << >>]
  /\ res = [c \in Callers |-> Nil]
  /\ prev = [c \in Callers |-> NoPrev]
  /\ cv = NoCv
  /\ urls = << >>
  /\ host = NoHost
  /\ snap = NoSnap

RaceCreate ==
  /\ \E c \in Callers, watchID \in Ids, body \in Texts, active \in BOOLEAN, f \in Faults :
       pc[c] = "idle" /\ resourceElasticsearchWatchCreate(c, watchID, body, active, f)
  /\ UNCHANGED aux
RacePut ==
  /\ \E c \in Callers, f \in Faults, st \in BOOLEAN : resourceElasticsearchPutWatch(c, f, st)
  /\ UNCHANGED aux
RaceUpdate ==
  /\ \E c \in Callers, body \in Texts, active \in BOOLEAN, f \in Faults, st \in BOOLEAN :
       pc[c] = "idle" /\ resourceElasticsearchWatchUpdate(c, body, active, f, st)
  /\ UNCHANGED aux
RaceActivate ==
  /\ \E c \in Callers, f \in Faults : activateWatcher(c, f)
  /\ UNCHANGED aux
RaceReadBack ==
  /\ \E c \in Callers, f \in ReadFaults : TrailingRead(c, f)
  /\ UNCHANGED aux
RaceRead ==
  /\ \E c \in Callers, f \in ReadFaults :
       pc[c] = "idle" /\ resourceElasticsearchWatchRead(c, f)
  /\ UNCHANGED aux
RaceDelete ==
  /\ \E c \in Callers, f \in Faults :
       pc[c] = "idle" /\ resourceElasticsearchWatchDelete(c, f)
  /\ UNCHANGED aux

NextRace ==
  \/ RaceCreate
  \/ RacePut
  \/ RaceUpdate
  \/ RaceActivate
  \/ RaceReadBack
  \/ RaceRead
  \/ RaceDelete

SpecRace == InitRace /\ [][NextRace]_vars

\* ------------------------------------------------------------- properties
Done(c) == pc[c] = "done"
Last(c) == calls[c][Len(calls[c])]
IsActivation(e) == e.call \in { "activate", "deactivate" }
\* the probe or Read got an answer from the cluster (no injected failure)
Answered(c) == calls[c] # << >> /\ calls[c][1].err # ServerErr
\* the handler that returned before the running one was a successful h
After(c, h) == prev[c].op = h /\ prev[c].ok
\* the step taken is c entering handler h (from Ready(c), c's next step is
\* the first step of a handler)
Entering(c, h) == Ready(c) /\ op'[c] = h

\* C1: on a supported variant, a Create whose getWatch reports an existing
\* watch returns the already-exists error right after the probe, with no
\* put, activate or deactivate call and no id set, and the probe leaves the
\* backend as it was; a Create that directly follows a successful Create of
\* the same id never succeeds and never puts, and fails with already-exists
\* whenever the cluster answers its probe.
C1_ProbeFoundState ==
  \A c \in Callers :
    /\ (op[c] = "create" /\ calls[c] # << >> /\ calls[c][1].err = Nil) =>
         /\ Done(c)
         /\ res[c] = AlreadyExists
         /\ Len(calls[c]) = 1
         /\ d[c].id = NoId
    /\ (op[c] = "create" /\ After(c, "create") /\ prev[c].id = d[c].watch_id) =>
         /\ Done(c)
         /\ res[c] # Nil
         /\ \A i \in DOMAIN calls[c] : calls[c][i].call = "get"
         /\ Answered(c) => res[c] = AlreadyExists

C1_ProbeFoundStep ==
  \A c \in Callers :
    (Entering(c, "create") /\ calls'[c] # << >> /\ calls'[c][1].err = Nil) =>
      backend' = backend /\ pc'[c] = "done"

C1_CreateExistingFails == []C1_ProbeFoundState /\ [][C1_ProbeFoundStep]_vars

C1_Witness ==
  /\ Supported
  /\ After(1, "create") /\ prev[1].id = d[1].watch_id
  /\ op[1] = "create" /\ Done(1) /\ res[1] = AlreadyExists
  /\ decl[1].active
  /\ backend[d[1].watch_id].present

\* C2: on a supported variant a Create that succeeds ends with the tracked
\* id and watch_id equal to the declared id, body the re-serialised stored
\* body (JSON-equivalent to the declared body) and active as declared, and
\* the backend holds exactly that watch; a Read that directly follows and is
\* answered returns the same three fields.
C2_CreateThenRead ==
  \A c \in Callers :
    LET want == [id |-> decl[c].watch_id, watch_id |-> decl[c].watch_id,
                 body |-> Marshal(Parse(decl[c].body)), active |-> decl[c].active]
    IN  /\ (op[c] = "create" /\ Done(c) /\ res[c] = Nil) =>
             /\ d[c] = want
             /\ Parse(d[c].body) = Parse(decl[c].body)
             /\ backend[decl[c].watch_id] = Watch(Parse(decl[c].body), decl[c].active)
        /\ (op[c] = "read" /\ Done(c) /\ After(c, "create") /\ Answered(c)
              /\ res[c] = Nil) =>
             /\ d[c] = want
             /\ Parse(d[c].body) = Parse(decl[c].body)

C2_Witness ==
  /\ Supported
  /\ op[1] = "read" /\ Done(1) /\ After(1, "create") /\ Answered(1) /\ res[1] = Nil
  /\ decl[1].active /\ d[1].active
  /\ decl[1].body # Marshal(Parse(decl[1].body))
  /\ d[1].id = decl[1].watch_id

\* C3: on a supported variant an Update that succeeds leaves the backend
\* holding the whole declared body with the declared activation, whatever
\* status the put itself left; a Read that directly follows and is answered
\* returns that body (re-serialised) and that activation; and every Read
\* that finds the watch takes body and active from the backend's answer.
C3_UpdateThenRead ==
  \A c \in Callers :
    /\ (op[c] = "update" /\ Done(c) /\ res[c] = Nil) =>
         /\ backend[d[c].id] = Watch(Parse(decl[c].body), decl[c].active)
         /\ d[c].active = decl[c].active
         /\ d[c].body = Marshal(Parse(decl[c].body))
    /\ (op[c] = "read" /\ Done(c) /\ After(c, "update") /\ Answered(c)
          /\ res[c] = Nil) =>
         /\ d[c].id # NoId
         /\ d[c].active = decl[c].active
         /\ d[c].body = Marshal(Parse(decl[c].body))
    /\ (Done(c) /\ res[c] = Nil /\ calls[c] # << >> /\ Last(c).call = "get"
          /\ Last(c).err = Nil) =>
         /\ d[c].active = backend[d[c].id].active
         /\ d[c].body = Marshal(backend[d[c].id].doc)

C3_Witness ==
  /\ Supported
  /\ op[1] = "read" /\ Done(1) /\ After(1, "update") /\ Answered(1) /\ res[1] = Nil
  /\ ~decl[1].active /\ ~d[1].active
  /\ d[1].body = Marshal(Parse(decl[1].body))

\* C4 as claimed: a Read that directly follows a successful Delete and is
\* answered returns no error, clears the tracked id and clears watch_id.
C4_AsClaimed ==
  \A c \in Callers :
    (op[c] = "read" /\ Done(c) /\ After(c, "delete") /\ Answered(c)) =>
      /\ res[c] = Nil
      /\ d[c].id = NoId
      /\ d[c].watch_id = NoId

\* C4 amended: a Read that directly follows a successful Delete and is
\* answered gets the variant's not-found error, returns no error and clears
\* the tracked id; it writes no field, so watch_id, body and active keep the
\* values they had (watch_id is still the id of the deleted watch).
C4_DeleteThenReadAbsent ==
  \A c \in Callers :
    (op[c] = "read" /\ Done(c) /\ After(c, "delete") /\ Answered(c)) =>
      /\ calls[c] = << Call("get", prev[c].id, NotFoundOf(variant)) >>
      /\ res[c] = Nil
      /\ d[c].id = NoId
      /\ d[c].watch_id = prev[c].id
      /\ d[c].watch_id # NoId
      /\ ~backend[d[c].watch_id].present

C4_Witness ==
  /\ Supported
  /\ op[1] = "read" /\ Done(1) /\ After(1, "delete") /\ Answered(1)
  /\ res[1] = Nil /\ d[1].id = NoId /\ d[1].watch_id # NoId

\* C5: with the oldest client (v5) every handler returns at once with an
\* error and without any backend call: the feature-not-supported error, or
\* the error of getClient when no client could be had at all.  The error is
\* never taken for NotFound: Create never reaches the put, Read keeps the
\* tracked id, and the backend never changes.
C5_UnsupportedState ==
  variant = "v5" =>
    \A c \in Callers :
      /\ pc[c] \in { "idle", "done" }
      /\ calls[c] = << >>
      /\ Done(c) =>
           /\ res[c] \in { Unsupported, ClientErr }
           /\ ~elastic6IsNotFound(res[c]) /\ ~elastic7IsNotFound(res[c])
           /\ op[c] = "create" => d[c].id = NoId
           /\ op[c] \in { "read", "update", "delete" } => d[c].id # NoId

C5_UnsupportedStep == variant = "v5" => backend' = backend

C5_UnsupportedFails == []C5_UnsupportedState /\ [][C5_UnsupportedStep]_vars

C5_Witness ==
  /\ variant = "v5"
  /\ op[1] = "read" /\ Done(1) /\ res[1] = Unsupported /\ d[1].id # NoId
  /\ prev[1].op = "delete" /\ ~prev[1].ok
  /\ backend[d[1].id].present

C7_ProbeErrorState ==
  \A c \in Callers :
    op[c] = "create" =>
      /\ calls[c] = << >> =>
           Done(c) /\ res[c] \in { Unsupported, ClientErr } /\ d[c].id = NoId
      /\ (calls[c] # << >> /\ calls[c][1].err # Nil
            /\ calls[c][1].err # NotFoundOf(variant)) =>
           /\ Done(c)
           /\ res[c] = calls[c][1].err
           /\ Len(calls[c]) = 1
           /\ d[c].id = NoId

C7_ProbeErrorStep ==
  \A c \in Callers :
    (Entering(c, "create") /\ pc'[c] = "done") => backend' = backend

C7_AmbiguousProbeAborts == []C7_ProbeErrorState /\ [][C7_ProbeErrorStep]_vars

C7_Witness ==
  /\ Supported
  /\ op[1] = "create" /\ Done(1) /\ res[1] = ServerErr
  /\ calls[1] = << Call("get", d[1].watch_id, ServerErr) >>
  /\ ~backend[d[1].watch_id].present

\* C8: the calls of one handler come in order, each after the success of the
\* one before: in Create the put is the second call and follows a getWatch
\* that returned NotFound; an activation call directly follows a put that
\* succeeded; the Read at the end directly follows an activation call that
\* succeeded, which follows a put that succeeded; Update starts with the put.
C8_CallOrder ==
  \A c \in Callers :
    LET cs == calls[c]
        n == Len(cs)
    IN  /\ \A i \in 1..n :
             /\ cs[i].call = "put" =>
                  IF op[c] = "create"
                  THEN i = 2 /\ cs[1].call = "get" /\ cs[1].err = NotFoundOf(variant)
                  ELSE op[c] = "update" /\ i = 1
             /\ IsActivation(cs[i]) =>
                  i > 1 /\ cs[i-1].call = "put" /\ cs[i-1].err = Nil
             /\ (cs[i].call = "get" /\ (i > 1 \/ op[c] = "update")) =>
                  /\ i > 2
                  /\ IsActivation(cs[i-1]) /\ cs[i-1].err = Nil
                  /\ cs[i-2].call = "put" /\ cs[i-2].err = Nil
                  /\ i = n
             /\ (cs[i].err # Nil /\ ~(op[c] = "create" /\ i = 1)) => i = n /\ Done(c)
        /\ pc[c] = "put" => n = 1 /\ cs[1].err = NotFoundOf(variant)
        /\ pc[c] = "activate" => n >= 1 /\ cs[n].call = "put" /\ cs[n].err = Nil
        /\ pc[c] = "read" => n >= 2 /\ IsActivation(cs[n]) /\ cs[n].err = Nil

C8_Witness ==
  /\ op[1] = "create" /\ Done(1) /\ res[1] = Nil /\ Len(calls[1]) = 4
  /\ calls[1][2].call = "put" /\ calls[1][3].call = "deactivate"
  /\ calls[1][4].call = "get"

\* C9: in Create and Update a put that succeeded is followed by exactly one
\* activation call on the same id: activate when active is declared true,
\* deactivate when it is declared false, whatever status the put left; and
\* no activation call is issued without a successful put right before it.
C9_ActivationAfterPut ==
  \A c \in Callers :
    LET cs == calls[c]
        n == Len(cs)
        wanted == IF decl[c].active THEN "activate" ELSE "deactivate"
    IN  /\ \A i \in 1..n :
             /\ (cs[i].call = "put" /\ cs[i].err = Nil) =>
                  IF i = n THEN pc[c] = "activate"
                  ELSE cs[i+1].call = wanted /\ cs[i+1].id = cs[i].id
             /\ IsActivation(cs[i]) =>
                  i > 1 /\ cs[i-1].call = "put" /\ cs[i-1].err = Nil
        /\ Cardinality({ i \in 1..n : IsActivation(cs[i]) }) <= 1
        /\ pc[c] = "activate" => cs[n].call = "put" /\ cs[n].err = Nil

C9_Witness ==
  /\ op[1] = "update" /\ Done(1)
  /\ Len(calls[1]) >= 2
  /\ calls[1][1].call = "put" /\ calls[1][1].err = Nil
  /\ calls[1][2].call = "deactivate"
  /\ ~decl[1].active

\* C10: a Create whose put succeeded and whose activation call failed
\* returns the error with no id set while the watch is in the backend; a
\* Create of the same id that directly follows never succeeds, issues no put
\* and no activation call and leaves the backend as it was, and it fails
\* with already-exists whenever the cluster answers its probe.
C10_FailedActivation(c) ==
  /\ prev[c].op = "create" /\ ~prev[c].ok
  /\ prev[c].last \in { "activate", "deactivate" }

C10_State ==
  \A c \in Callers :
    /\ (op[c] = "create" /\ Done(c) /\ calls[c] # << >> /\ IsActivation(Last(c))
          /\ Last(c).err # Nil) =>
         /\ res[c] = Last(c).err
         /\ d[c].id = NoId
         /\ backend[d[c].watch_id].present
         /\ backend[d[c].watch_id].doc = Parse(decl[c].body)
    /\ (op[c] = "create" /\ C10_FailedActivation(c) /\ prev[c].id = d[c].watch_id) =>
         /\ Done(c)
         /\ res[c] # Nil
         /\ d[c].id = NoId
         /\ \A i \in DOMAIN calls[c] : calls[c][i].call = "get"
         /\ Answered(c) => res[c] = AlreadyExists
         /\ backend[d[c].watch_id].present

C10_Step ==
  \A c \in Callers :
    (Done(c) /\ op[c] = "create" /\ calls[c] # << >>
       /\ IsActivation(Last(c)) /\ Last(c).err # Nil
       /\ Entering(c, "create") /\ d'[c].watch_id = d[c].watch_id) =>
      backend' = backend

C10_RetryAfterFailedActivation == []C10_State /\ [][C10_Step]_vars

C10_Witness ==
  /\ Supported
  /\ op[1] = "create" /\ C10_FailedActivation(1) /\ prev[1].id = d[1].watch_id
  /\ Done(1) /\ res[1] = AlreadyExists
  /\ decl[1].active /\ ~backend[d[1].watch_id].active

\* the step taken is a Read of c: called on its own, or at the end of a
\* Create or an Update
ReadRuns(c) == (Ready(c) /\ op'[c] = "read") \/ pc[c] = "read"
\* that Read sent its getWatch to the cluster
ReadCalled(c) ==
  Len(calls'[c]) = (IF pc[c] = "read" THEN Len(calls[c]) ELSE 0) + 1

\* C11: a Read whose getWatch returns an error that is not NotFound (a
\* server error, feature-not-supported, a getClient error) returns that
\* error and leaves the ResourceData as it found it: the tracked id is not
\* cleared and body, watch_id and active keep their values; whenever a Read
\* fails, nothing of the ResourceData or of the backend has changed.
C11_State ==
  \A c \in Callers :
    (op[c] = "read" /\ Done(c) /\ res[c] # Nil) => d[c].id # NoId

C11_Step ==
  \A c \in Callers :
    ReadRuns(c) =>
      /\ (ReadCalled(c) /\ calls'[c][Len(calls'[c])].err \notin { Nil, NotFoundOf(variant) }) =>
           /\ res'[c] = calls'[c][Len(calls'[c])].err
           /\ d'[c] = d[c]
      /\ ~ReadCalled(c) =>
           /\ res'[c] \in { Unsupported, ClientErr }
           /\ d'[c] = d[c]
      /\ res'[c] # Nil => d'[c] = d[c] /\ d'[c].id # NoId /\ backend' = backend

C11_ReadErrorKeepsState == []C11_State /\ [][C11_Step]_vars

C11_Witness ==
  /\ Supported
  /\ op[1] = "read" /\ Done(1) /\ res[1] = ServerErr
  /\ calls[1] = << Call("get", d[1].id, ServerErr) >>
  /\ d[1].id # NoId /\ d[1].watch_id = d[1].id /\ d[1].body # EmptyString
  /\ backend[d[1].id].present
  /\ d[1].body # Marshal(backend[d[1].id].doc)

\* C12: Delete issues no probe and classifies nothing: when the client is
\* obtained on a supported variant its only backend call is one delete of
\* the tracked id, and it returns that call's error as it is; on an id the
\* backend does not hold, the backend is left as it was and Delete fails,
\* with the backend's not-found error whenever the cluster answers.
C12_State ==
  \A c \in Callers :
    (op[c] = "delete" /\ Done(c)) =>
      /\ \/ calls[c] = << >> /\ res[c] \in { ClientErr, Unsupported }
         \/ /\ Len(calls[c]) = 1
            /\ calls[c][1].call = "delete"
            /\ calls[c][1].id = d[c].id
            /\ res[c] = calls[c][1].err
      /\ (Supported /\ res[c] # ClientErr) => Len(calls[c]) = 1
      /\ res[c] = Nil => ~backend[d[c].id].present

C12_Step ==
  \A c \in Callers :
    (Entering(c, "delete") /\ ~backend[d[c].id].present) =>
      /\ backend' = backend
      /\ res'[c] # Nil
      /\ (calls'[c] # << >> /\ calls'[c][1].err # ServerErr) =>
           res'[c] = NotFoundOf(variant)

C12_DeleteAbsentFails == []C12_State /\ [][C12_Step]_vars

C12_Witness ==
  /\ Supported
  /\ op[1] = "delete" /\ Done(1) /\ After(1, "delete")
  /\ calls[1] = << Call("delete", d[1].id, NotFoundOf(variant)) >>
  /\ res[1] = NotFoundOf(variant)
  /\ d[1].id # NoId

\* C13: with a client of any of the three variants, Read of the host data
\* source returns no error and sets the id to the first entry of the
\* client's endpoint list when the list has entries, and sets no id when
\* the list is empty; it fails only when no client is obtained; the step
\* issues no backend call and leaves the backend as it was.
C13_State ==
  host.pc = "done" =>
    /\ host.res \in { Nil, ClientErr }
    /\ host.res = Nil =>
         IF urls = << >> THEN host.id = NoId
         ELSE host.id = urls[1] /\ host.id # NoId
    /\ host.res = ClientErr => host.id = NoId

C13_Step == host' # host => backend' = backend /\ calls' = calls

C13_FirstEndpoint == []C13_State /\ [][C13_Step]_vars

C13_Witness ==
  /\ variant = "v5"
  /\ host.pc = "done" /\ host.res = Nil
  /\ Len(urls) = 2 /\ urls[1] # urls[2]
  /\ host.id = urls[1]
  /\ \E i \in Ids : backend[i].present

\* C14: two Creates of the same id by different callers can both succeed
\* only when both probes returned NotFound and both puts went through; when
\* no third caller has written to the backend, the backend then holds one
\* watch whose body is the body of one of the two and whose activation is
\* the flag of one of the two.  (The witness is the lost
\* update: both succeed, the callers declared different bodies and flags,
\* the backend holds the second caller's, the first caller's was replaced.)
C14_BothCreated(a, b) ==
  /\ a # b
  /\ op[a] = "create" /\ Done(a) /\ res[a] = Nil
  /\ op[b] = "create" /\ Done(b) /\ res[b] = Nil
  /\ decl[a].watch_id = decl[b].watch_id

\* the callers outside S have sent nothing but gets
C14_OnlyReaders(S) ==
  \A c \in Callers \ S : \A i \in DOMAIN calls[c] : calls[c][i].call = "get"

C14_RacingCreates ==
  \A a, b \in Callers :
    C14_BothCreated(a, b) =>
      /\ \A c \in { a, b } :
           /\ Len(calls[c]) = 4
           /\ calls[c][1] = Call("get", decl[c].watch_id, NotFoundOf(variant))
           /\ calls[c][2] = Call("put", decl[c].watch_id, Nil)
      /\ C14_OnlyReaders({ a, b }) =>
           /\ d[a].id = decl[a].watch_id /\ d[b].id = decl[b].watch_id
           /\ backend[decl[a].watch_id].present
           /\ backend[decl[a].watch_id].doc \in { Parse(decl[a].body), Parse(decl[b].body) }
           /\ backend[decl[a].watch_id].active \in { decl[a].active, decl[b].active }

C14_Witness ==
  /\ C14_BothCreated(1, 2)
  /\ Parse(decl[1].body) # Parse(decl[2].body)
  /\ decl[1].active # decl[2].active
  /\ backend[decl[1].watch_id] = Watch(Parse(decl[2].body), decl[2].active)
  /\ d[1].body = Marshal(Parse(decl[1].body)) /\ d[1].active = decl[1].active
  /\ d[2].body = Marshal(Parse(decl[2].body)) /\ d[2].active = decl[2].active

\* C15: an Update that succeeded, applied once more with the same declared
\* body and flag and succeeding again, leaves the backend and the fields
\* Read reports (id, watch_id, body, active) exactly as the first
\* application left them, whatever status the second put gave the watch
\* before the activation call; the watch was already in the requested
\* activation state when the second application began.
C15_UpdateIdempotent ==
  \A c \in Worker :
    (snap.taken /\ op[c] = "update" /\ Done(c) /\ res[c] = Nil) =>
      /\ backend = snap.backend
      /\ d[c] = snap.d
      /\ snap.backend[d[c].id].active = decl[c].active

C15_Witness ==
  /\ Supported
  /\ snap.taken /\ op[1] = "update" /\ Done(1) /\ res[1] = Nil
  /\ Len(calls[1]) = 3 /\ calls[1][2].call = "activate"
  /\ decl[1].active /\ snap.backend[d[1].id].active
  /\ decl[1].body # d[1].body
  /\ backend = snap.backend /\ d[1] = snap.d

\* the names of the calls a handler has issued, activate and deactivate
\* both written "activation"
C16_Names(cs) ==
  [i \in DOMAIN cs |-> IF IsActivation(cs[i]) THEN "activation" ELSE cs[i].call]

C16_Prefix(s, t) == Len(s) <= Len(t) /\ \A i \in DOMAIN s : s[i] = t[i]

\* C16 as claimed: Create issues at most 4 calls, Update at most 3, and a
\* Read that has returned has issued exactly one get, a Delete that has
\* returned exactly one delete.
C16_AsClaimed ==
  \A c \in Callers :
    /\ op[c] = "create" => C16_Prefix(C16_Names(calls[c]), << "get", "put", "activation", "get" >>)
    /\ op[c] = "update" => C16_Prefix(C16_Names(calls[c]), << "put", "activation", "get" >>)
    /\ (op[c] = "read" /\ Done(c)) => C16_Names(calls[c]) = << "get" >>
    /\ (op[c] = "delete" /\ Done(c)) => C16_Names(calls[c]) = << "delete" >>

\* C16 amended: the calls of a Create are a prefix of get, put, one
\* activation call, get (at most 4), those of an Update a prefix of put, one
\* activation call, get (at most 3), a Read issues at most one get and a
\* Delete at most one delete: exactly one when the client was obtained on a
\* supported variant, none on the oldest variant or when getClient failed.
\* A call that failed is the last call of its handler, which has returned
\* (the NotFound of Create's probe is the answer Create goes on from, and
\* the get is not sent again); every step of a running handler issues at
\* most one call and returns if it issues none.
C16_State ==
  \A c \in Callers :
    LET cs == calls[c]
        n == Len(cs)
    IN  /\ op[c] = "create" => C16_Prefix(C16_Names(cs), << "get", "put", "activation", "get" >>)
        /\ op[c] = "update" => C16_Prefix(C16_Names(cs), << "put", "activation", "get" >>)
        /\ op[c] = "read" => C16_Prefix(C16_Names(cs), << "get" >>)
        /\ op[c] = "delete" => C16_Prefix(C16_Names(cs), << "delete" >>)
        /\ (op[c] \in { "read", "delete" } /\ Done(c)) =>
             /\ n = 0 => ~Supported \/ res[c] = ClientErr
             /\ ~Supported => n = 0
             /\ (Supported /\ res[c] # ClientErr) => n = 1
        /\ \A i \in 1..n :
             (cs[i].err # Nil /\ ~(op[c] = "create" /\ i = 1 /\ cs[i].err = NotFoundOf(variant))) =>
               i = n /\ Done(c)

C16_Step ==
  \A c \in Callers :
    \/ calls'[c] = calls[c] /\ pc'[c] = pc[c]
    \/ Ready(c) /\ Len(calls'[c]) <= 1 /\ (calls'[c] = << >> => pc'[c] = "done")
    \/ ~Ready(c) /\ Len(calls'[c]) = Len(calls[c]) + 1
    \/ ~Ready(c) /\ calls'[c] = calls[c] /\ pc'[c] = "done"

C16_NoRetry == []C16_State /\ [][C16_Step]_vars

C16_Witness ==
  /\ op[1] = "create" /\ Done(1) /\ Len(calls[1]) = 4
  /\ calls[1][4] = Call("get", d[1].id, ServerErr)
  /\ res[1] = ServerErr
  /\ prev[1].op = "read" /\ ~prev[1].ok /\ prev[1].last = "none"

\* C17: the first backend call of an Update is the put of the declared body
\* under watch_id, never a get; an Update never returns the already-exists
\* error; and on a supported variant the put of an Update that reaches the
\* cluster succeeds whether or not the backend holds the id: on an absent id
\* it creates the watch, and the Update goes on to the activation call.
C17_State ==
  \A c \in Callers :
    op[c] = "update" =>
      /\ calls[c] # << >> =>
           calls[c][1].call = "put" /\ calls[c][1].id = d[c].watch_id
      /\ res[c] # AlreadyExists
      /\ (Done(c) /\ res[c] = Nil) => backend[d[c].id].present

C17_Step ==
  \A c \in Callers :
    (Entering(c, "update") /\ Supported /\ calls'[c] # << >>
       /\ calls'[c][1].err # ServerErr) =>
      /\ calls'[c][1] = Call("put", d[c].watch_id, Nil)
      /\ pc'[c] = "activate"
      /\ backend'[d[c].watch_id].present
      /\ backend'[d[c].watch_id].doc = Parse(decl'[c].body)
      /\ \A i \in Ids \ { d[c].watch_id } : backend'[i] = backend[i]

C17_UpdateNeverProbes == []C17_State /\ [][C17_Step]_vars

C17_Witness ==
  /\ Supported
  /\ op[1] = "update" /\ Done(1) /\ res[1] = Nil
  /\ After(1, "delete") /\ prev[1].id = d[1].id
  /\ calls[1][1] = Call("put", d[1].id, Nil)
  /\ backend[d[1].id] = Watch(Parse(decl[1].body), decl[1].active)

\* C18: whenever a Create has returned success, the tracked id is set and
\* equal to the declared watch_id, and the backend held the watch when the
\* Create returned (its trailing Read, the last call before the return,
\* found it), also when another caller deleted or rewrote the watch between
\* the activation call of the Create and its trailing Read.
C18_CreatedIsTracked ==
  \A c \in Callers :
    (op[c] = "create" /\ Done(c) /\ res[c] = Nil) =>
      /\ d[c].id # NoId
      /\ d[c].id = decl[c].watch_id
      /\ Last(c) = Call("get", decl[c].watch_id, Nil)

\* C19: in every reachable state a tracked id that is not empty equals the
\* watch_id field, and every backend call of a handler carries that one id:
\* the put and the activation call of an Update (keyed by watch_id), its
\* trailing Read and a Delete (keyed by the tracked id) address one watch.
C19_IdIsWatchId ==
  \A c \in Callers :
    /\ d[c].id # NoId => d[c].id = d[c].watch_id
    /\ \A i \in DOMAIN calls[c] : calls[c][i].id = d[c].watch_id
    /\ pc[c] \in { "put", "activate", "read" } => d[c].watch_id # NoId

C19_Witness ==
  /\ Supported
  /\ After(1, "create")
  /\ op[1] = "update" /\ Done(1) /\ res[1] = Nil
  /\ d[1].id # NoId /\ d[1].id = d[1].watch_id
  /\ calls[1] = << Call("put", d[1].watch_id, Nil),
                   Call("activate", d[1].watch_id, Nil),
                   Call("get", d[1].id, Nil) >>

\* C20: a Read of the watch and a Read of the host data source leave the
\* backend as it was, whatever getWatch answers (the watch, NotFound, an
\* error) and whatever the variant: every watch keeps its body and its
\* activation, none appears or disappears; the only call a Read issues is
\* a get, and the host data source issues none.
C20_State ==
  \A c \in Callers :
    op[c] = "read" => \A i \in DOMAIN calls[c] : calls[c][i].call = "get"

C20_Step ==
  \A c \in Callers :
    (ReadRuns(c) \/ host' # host) =>
      /\ backend' = backend
      /\ \A i \in DOMAIN calls'[c] :
           i > (IF pc[c] = "read" THEN Len(calls[c]) ELSE 0) => calls'[c][i].call = "get"
      /\ host' # host => calls' = calls

C20_ReadsLeaveBackend == []C20_State /\ [][C20_Step]_vars

C20_Witness ==
  /\ variant = "v7"
  /\ op[1] = "read" /\ Done(1) /\ res[1] = Nil /\ d[1].id # NoId
  /\ prev[1].op = "read" /\ ~prev[1].ok
  /\ backend[d[1].id].present /\ backend[d[1].id].active
  /\ d[1].body = Marshal(backend[d[1].id].doc) /\ d[1].active
  /\ host.pc = "done" /\ host.id # NoId

====
